---- MODULE Spec2Model ----
(***************************************************************************)
(* Package kelliptic: Koblitz curves y^2 = x^3 + B over a prime field.     *)
(*                                                                         *)
(* The arithmetic of the package is modelled on math/big integers, which   *)
(* are unbounded; the model runs the same formulas, unreduced where the    *)
(* code leaves them unreduced, on curves whose field is small enough for   *)
(* every intermediate value to fit the integers of TLC.                    *)
(***************************************************************************)
EXTENDS Integers, Sequences, FiniteSets, TLC

VARIABLES
    \* --- the registry: the package variables and the goroutines using them
    initonce,   \* sync.Once: done, and m, the goroutine holding its mutex (0: none)
    secp,       \* the four package-level *Curve variables: an object, 0 for nil
    heap,       \* the fields assigned so far in each allocated Curve
    pc,         \* each goroutine's position
    ipos,       \* each goroutine's position inside initAll
    acc,        \* the accessor each goroutine is executing (S160 when in none)
    calls,      \* the accessor calls each goroutine has completed
    initRuns,   \* the number of times initAll has been entered
    initEnds,   \* the number of times initAll has returned
    returned,   \* per accessor, the pointers it has returned
    \* --- calls of the pure functions of the package: inputs and results
    curve,      \* the receiver
    px, py,     \* a point on the curve, and pord, its order in the group
    pord,
    qx, qy,     \* a second point on the curve
    k, k2,      \* scalars: big-endian byte sequences
    cp,         \* a byte sequence handed to DecompressPoint
    sqA,        \* the argument of Sqrt
    smRes,      \* ScalarMult(px, py, k), and smRun, its locals when the loops ended
    smRun,
    sbmRes,     \* ScalarBaseMult(k), and sbmRun, its locals when the loops ended
    sbmRun,
    sbm2Res,    \* ScalarBaseMult(k2)
    sumRes,     \* ScalarBaseMult of (k + k2) mod N
    addRes,     \* Add of two points
    dblRes,     \* Double(px, py)
    cpRes,      \* CompressPoint(px, py)
    dcRes,      \* DecompressPoint(cp)
    sqRes       \* Sqrt(sqA)

regVars  == <<initonce, secp, heap, pc, ipos, acc, calls, initRuns,
              initEnds, returned>>
inVars   == <<curve, px, py, pord, qx, qy, k, k2, cp, sqA>>
outVars  == <<smRes, smRun, sbmRes, sbmRun, sbm2Res, sumRes, addRes, dblRes,
              cpRes, dcRes, sqRes>>
callVars == <<inVars, outVars>>
vars     == <<regVars, callVars>>

\* What a call yields: a pair of coordinates, (nil, nil), or no return at
\* all (a nil dereference); NotCalled before the call is made.
Pt(x, y)  == [kind |-> "point", x |-> x, y |-> y]
Nil       == [kind |-> "nil", x |-> 0, y |-> 0]
Panic     == [kind |-> "panic", x |-> 0, y |-> 0]
NotCalled == [kind |-> "notcalled", x |-> 0, y |-> 0]
\* the errors of DecompressPoint
ErrInvalidHeader == [kind |-> "Not a compressed point. (Invalid Header)", x |-> 0, y |-> 0]
ErrKeySize       == [kind |-> "Not a compressed point. (Require 1 + key size)", x |-> 0, y |-> 0]
ErrNotOnCurve    == [kind |-> "Not a compressed point. (Not on curve)", x |-> 0, y |-> 0]
\* the call does not return: its loop does not end
Hang == [kind |-> "hang", x |-> 0, y |-> 0]
Unused    == "unused"     \* a variable the specification does not use

----------------------------------------------------------------------------
(* math/big *)

RECURSIVE Pow2(_)
Pow2(n) == IF n <= 0 THEN 1 ELSE 2 * Pow2(n - 1)

\* big.Int.BitLen
RECURSIVE BitLen(_)
BitLen(n) == IF n <= 0 THEN 0 ELSE 1 + BitLen(n \div 2)

\* big.Int.Exp(x, y, m) for m > 0: x**y mod m, and 1 mod m for y <= 0
RECURSIVE ModExp(_, _, _)
ModExp(x, y, m) ==
    IF y <= 0 THEN 1 % m
    ELSE LET h == ModExp(x, y \div 2, m)
             s == (h * h) % m
         IN  IF y % 2 = 1 THEN (s * (x % m)) % m ELSE s

\* big.Int.ModInverse(g, n): the inverse of g in Z/nZ, when g has one
HasInverse(g, n) == \E x \in 1..(n - 1) : (g * x) % n = 1
ModInverse(g, n) == CHOOSE x \in 1..(n - 1) : (g * x) % n = 1

\* big.Int.SetBytes: the big-endian value of a byte sequence
RECURSIVE SetBytes(_)
SetBytes(bs) ==
    IF bs = <<>> THEN 0
    ELSE 256 * SetBytes(SubSeq(bs, 1, Len(bs) - 1)) + bs[Len(bs)]

\* big.Int.Bytes: the minimal big-endian bytes of a value (none for 0)
RECURSIVE Bytes(_)
Bytes(v) == IF v = 0 THEN <<>> ELSE Append(Bytes(v \div 256), v % 256)

----------------------------------------------------------------------------
(* The curves of the model: Koblitz curves as the package's, scaled down. *)

S160 == "S160"
S192 == "S192"
S224 == "S224"
S256 == "S256"
Accessors == {S160, S192, S224, S256}

\* the parameter sets the four init functions build
Params(a) ==
    CASE a = S160 -> [P |-> 13, N |-> 7,  B |-> 7, Gx |-> 7,  Gy |-> 5,  BitSize |-> 4]
      [] a = S192 -> [P |-> 19, N |-> 13, B |-> 3, Gx |-> 1,  Gy |-> 2,  BitSize |-> 5]
      [] a = S224 -> [P |-> 37, N |-> 37, B |-> 5, Gx |-> 6,  Gy |-> 6,  BitSize |-> 6]
      [] a = S256 -> [P |-> 43, N |-> 31, B |-> 7, Gx |-> 7,  Gy |-> 7,  BitSize |-> 6]

\* every curve of the registry
RegistryCurves == { Params(a) : a \in Accessors }

\* a curve of composite order, with points of order 2, 3, 6, 9 and 18
CompositeCurve == [P |-> 17, N |-> 18, B |-> 7, Gx |-> 6, Gy |-> 6, BitSize |-> 5]

\* curves whose coordinates take two bytes, so that x can have a leading
\* zero byte; the first with P = 1 (mod 4), the second with P = 3 (mod 4)
WideCurve1 == [P |-> 257, N |-> 258, B |-> 7, Gx |-> 3, Gy |-> 88, BitSize |-> 9]
WideCurve3 == [P |-> 263, N |-> 264, B |-> 3, Gx |-> 5, Gy |-> 91, BitSize |-> 9]

----------------------------------------------------------------------------
(* Curve arithmetic *)

IsOnCurve(c, x, y) ==
    LET y2 == (y * y) % c.P
        x3 == (x * x * x + c.B) % c.P
    IN  x3 = y2

\* affineFromJacobian: the set of outcomes.  With z invertible there is one.
\* With z = 0 (mod P) ModInverse finds no inverse: a math/big that returns
\* nil makes the next Mul dereference it, one that leaves the receiver 0
\* makes both coordinates 0.
affineFromJacobian(c, x, y, z) ==
    IF ~HasInverse(z, c.P)
    THEN {Panic, Pt(0, 0)}
    ELSE LET zinv   == ModInverse(z, c.P)
             zinvsq == zinv * zinv
             xOut   == (x * zinvsq) % c.P
             yOut   == (y * (zinvsq * zinv)) % c.P
         IN  {Pt(xOut, yOut)}

\* h of addJacobian: u2 - u1, plus P when negative
addH(c, x1, z1, x2, z2) ==
    LET z1z1 == (z1 * z1) % c.P
        z2z2 == (z2 * z2) % c.P
        u1   == (x1 * z2z2) % c.P
        u2   == (x2 * z1z1) % c.P
        h0   == u2 - u1
    IN  IF h0 < 0 THEN h0 + c.P ELSE h0

addJacobian(c, x1, y1, z1, x2, y2, z2) ==
    LET z1z1 == (z1 * z1) % c.P
        z2z2 == (z2 * z2) % c.P
        u1   == (x1 * z2z2) % c.P
        h    == addH(c, x1, z1, x2, z2)
        i    == (2 * h) * (2 * h)
        j    == h * i
        s1   == (y1 * z2 * z2z2) % c.P
        s2   == (y2 * z1 * z1z1) % c.P
        r0   == s2 - s1
        r    == 2 * (IF r0 < 0 THEN r0 + c.P ELSE r0)
        v    == u1 * i
        x3   == (r * r - j - v - v) % c.P
        y3   == (r * (v - x3) - 2 * (s1 * j)) % c.P
        za   == (z1 + z2) * (z1 + z2) - z1z1
        zb   == (IF za < 0 THEN za + c.P ELSE za) - z2z2
        zc   == IF zb < 0 THEN zb + c.P ELSE zb
        z3   == (zc * h) % c.P
    IN  <<x3, y3, z3>>

doubleJacobian(c, x, y, z) ==
    LET a  == x * x
        b  == y * y
        cc == b * b
        d  == 2 * ((x + b) * (x + b) - a - cc)
        e  == 3 * a
        f  == e * e
        x3 == (f - 2 * d) % c.P
        y3 == (e * (d - x3) - 8 * cc) % c.P
        z3 == (2 * (y * z)) % c.P
    IN  <<x3, y3, z3>>

\* Add: the set of outcomes (see affineFromJacobian)
Add(c, x1, y1, x2, y2) ==
    LET s == addJacobian(c, x1, y1, 1, x2, y2, 1)
    IN  affineFromJacobian(c, s[1], s[2], s[3])

\* Double: the set of outcomes
Double(c, x1, y1) ==
    LET s == doubleJacobian(c, x1, y1, 1)
    IN  affineFromJacobian(c, s[1], s[2], s[3])

\* The locals of ScalarMult after a doubleJacobian that gave d / after an
\* addJacobian, entered with h, that gave a.  Beside x, y, z and
\* seenFirstTrue, st records what the loop did: doublings, additions, an
\* addJacobian entered with h = 0, a result with z = 0.
AfterDouble(st, d) ==
    [st EXCEPT !.x = d[1], !.y = d[2], !.z = d[3],
               !.nDbl = @ + 1, !.zZero = @ \/ d[3] = 0]

AfterAdd(st, h, a) ==
    [st EXCEPT !.x = a[1], !.y = a[2], !.z = a[3],
               !.nAdd = @ + 1, !.hZero = @ \/ h = 0, !.zZero = @ \/ a[3] = 0]

\* ScalarMultAddStep adding the base point on the first true bit too
ScalarMultAddStepNoSkip(c, Bx, By, st, byte) ==
    IF byte \div 128 = 1
    THEN AfterAdd([st EXCEPT !.seenFirstTrue = TRUE],
                  addH(c, Bx, 1, st.x, st.z),
                  addJacobian(c, Bx, By, 1, st.x, st.y, st.z))
    ELSE st

\* the second half of a pass of the inner loop: the test of byte&0x80
ScalarMultAddStep(c, Bx, By, st, byte) ==
    IF byte \div 128 = 1
    THEN IF ~st.seenFirstTrue
         THEN [st EXCEPT !.seenFirstTrue = TRUE]
         ELSE AfterAdd(st, addH(c, Bx, 1, st.x, st.z),
                       addJacobian(c, Bx, By, 1, st.x, st.y, st.z))
    ELSE st

\* the inner loop of ScalarMult from bit bitNum on: the doubling once the
\* first true bit has been seen, then the test of the bit; byte <<= 1 is 8
\* bits wide
RECURSIVE ScalarMultByte(_, _, _, _, _, _)
ScalarMultByte(c, Bx, By, st, byte, bitNum) ==
    IF bitNum < 8
    THEN IF st.seenFirstTrue
         THEN ScalarMultByte(c, Bx, By,
                  ScalarMultAddStep(c, Bx, By,
                      AfterDouble(st, doubleJacobian(c, st.x, st.y, st.z)), byte),
                  (byte * 2) % 256, bitNum + 1)
         ELSE ScalarMultByte(c, Bx, By, ScalarMultAddStep(c, Bx, By, st, byte),
                  (byte * 2) % 256, bitNum + 1)
    ELSE st

\* the locals of ScalarMult after the first n bytes of k
RECURSIVE ScalarMultLoop(_, _, _, _, _)
ScalarMultLoop(c, Bx, By, kk, n) ==
    IF n = 0
    THEN [x |-> Bx, y |-> By, z |-> 1, seenFirstTrue |-> FALSE,
          nDbl |-> 0, nAdd |-> 0, hZero |-> FALSE, zZero |-> FALSE]
    ELSE ScalarMultByte(c, Bx, By, ScalarMultLoop(c, Bx, By, kk, n - 1), kk[n], 0)

\* the locals of ScalarMult when its loops are done
ScalarMultRun(c, Bx, By, kk) == ScalarMultLoop(c, Bx, By, kk, Len(kk))

\* ScalarMultReturn without the test of seenFirstTrue
ScalarMultReturnNoNilCheck(c, st) == affineFromJacobian(c, st.x, st.y, st.z)

\* what ScalarMult returns once its loops ended with locals st: the set of
\* outcomes; Nil is the (nil, nil) return
ScalarMultReturn(c, st) ==
    IF ~st.seenFirstTrue THEN {Nil}
    ELSE affineFromJacobian(c, st.x, st.y, st.z)

ScalarMult(c, Bx, By, kk) == ScalarMultReturn(c, ScalarMultRun(c, Bx, By, kk))

ScalarBaseMult(c, kk) == ScalarMult(c, c.Gx, c.Gy, kk)

----------------------------------------------------------------------------
(* Modular square root *)

MaxSqrtIter == 12   \* passes of the loop of Sqrt that are followed

legendre_symbol(a, p) ==
    IF a % p = 0 THEN 0
    ELSE IF ModExp(a, (p - 1) \div 2, p) = p - 1 THEN -1
    ELSE 1

\* p - 1 = s * 2^e with s odd: the loop that halves s and counts e
RECURSIVE Partition(_, _)
Partition(s, e) ==
    IF s % 2 = 0 THEN Partition(s \div 2, e + 1) ELSE [s |-> s, e |-> e]

\* the first n >= from with legendre_symbol(n, p) = -1
RECURSIVE NonResidue(_, _)
NonResidue(n, p) ==
    IF legendre_symbol(n, p) # -1 THEN NonResidue(n + 1, p) ELSE n

\* the inner loop: m when it ends, t being squared while m < r and t # 1
RECURSIVE FindM(_, _, _, _)
FindM(p, t, m, r) ==
    IF m < r
    THEN IF t = 1 THEN m ELSE FindM(p, (t * t) % p, m + 1, r)
    ELSE m

\* SqrtLoop multiplying b by gs where the code multiplies it by the new g
RECURSIVE SqrtLoopBadB(_, _, _, _, _, _, _)
SqrtLoopBadB(p, x, b, g, r, rs, ms) ==
    LET m == FindM(p, b, 0, r)
    IN  IF m = 0
        THEN [kind |-> "value", v |-> x, path |-> "general",
              rs |-> Append(rs, r), ms |-> Append(ms, m)]
        ELSE IF Len(rs) + 1 >= MaxSqrtIter
        THEN [kind |-> "hang", v |-> 0, path |-> "general",
              rs |-> Append(rs, r), ms |-> Append(ms, m)]
        ELSE LET gs == ModExp(g, Pow2(r - m - 1), p)
                 g2 == (gs * gs) % p
             IN  SqrtLoopBadB(p, (x * gs) % p, (b * gs) % p, g2, m,
                              Append(rs, r), Append(ms, m))

\* SqrtLoop without r.Set(m)
RECURSIVE SqrtLoopKeepR(_, _, _, _, _, _, _)
SqrtLoopKeepR(p, x, b, g, r, rs, ms) ==
    LET m == FindM(p, b, 0, r)
    IN  IF m = 0
        THEN [kind |-> "value", v |-> x, path |-> "general",
              rs |-> Append(rs, r), ms |-> Append(ms, m)]
        ELSE IF Len(rs) + 1 >= MaxSqrtIter
        THEN [kind |-> "hang", v |-> 0, path |-> "general",
              rs |-> Append(rs, r), ms |-> Append(ms, m)]
        ELSE LET gs == ModExp(g, Pow2(r - m - 1), p)
                 g2 == (gs * gs) % p
             IN  SqrtLoopKeepR(p, (x * gs) % p, (b * g2) % p, g2, r,
                               Append(rs, r), Append(ms, m))

\* The refinement loop of Sqrt.  rs lists r at the start of every pass made
\* so far, ms the m each pass found.  2^(r-m-1) is big.Int.Exp(2, r-m-1, nil),
\* which is 1 for a negative exponent.
RECURSIVE SqrtLoop(_, _, _, _, _, _, _)
SqrtLoop(p, x, b, g, r, rs, ms) ==
    LET m == FindM(p, b, 0, r)
    IN  IF m = 0
        THEN [kind |-> "value", v |-> x, path |-> "general",
              rs |-> Append(rs, r), ms |-> Append(ms, m)]
        ELSE IF Len(rs) + 1 >= MaxSqrtIter
        THEN [kind |-> "hang", v |-> 0, path |-> "general",
              rs |-> Append(rs, r), ms |-> Append(ms, m)]
        ELSE LET gs == ModExp(g, Pow2(r - m - 1), p)
                 g2 == (gs * gs) % p
             IN  SqrtLoop(p, (x * gs) % p, (b * g2) % p, g2, m,
                          Append(rs, r), Append(ms, m))

\* Sqrt: v is the value returned; path, rs and ms tell how it was found
Sqrt(c, a) ==
    LET p == c.P
    IN  IF legendre_symbol(a, p) # 1
        THEN [kind |-> "value", v |-> 0, path |-> "none", rs |-> <<>>, ms |-> <<>>]
        ELSE IF a = 0
        THEN [kind |-> "value", v |-> 0, path |-> "none", rs |-> <<>>, ms |-> <<>>]
        ELSE IF p = 2
        THEN [kind |-> "value", v |-> p, path |-> "none", rs |-> <<>>, ms |-> <<>>]
        ELSE IF p % 4 = 3
        THEN [kind |-> "value", v |-> ModExp(a, (p + 1) \div 4, p),
              path |-> "fast", rs |-> <<>>, ms |-> <<>>]
        ELSE LET se == Partition(p - 1, 0)
                 n  == NonResidue(2, p)
             IN  SqrtLoop(p, ModExp(a, (se.s + 1) \div 2, p), ModExp(a, se.s, p),
                          ModExp(n, se.s, p), se.e, <<>>, <<>>)

----------------------------------------------------------------------------
(* Point compression *)

\* no bytes: CompressPoint has not been called (it returns one byte at least)
NoBytes == <<>>

CompressPoint(c, X, Y) == <<IF Y % 2 = 1 THEN 3 ELSE 2>> \o Bytes(X)

\* (BitSize + 7) >> 3
ByteLen(c) == (c.BitSize + 7) \div 8

\* elliptic.Unmarshal: the set of outcomes.  Every crypto/elliptic rejects a
\* wrong length; only the later ones reject coordinates that are not below P
\* or not on the curve, with (nil, nil) too.
Unmarshal(c, data) ==
    IF Len(data) # 1 + 2 * ByteLen(c) THEN {Nil}
    ELSE LET x == SetBytes(SubSeq(data, 2, 1 + ByteLen(c)))
             y == SetBytes(SubSeq(data, 2 + ByteLen(c), Len(data)))
         IN  IF x < c.P /\ y < c.P /\ IsOnCurve(c, x, y)
             THEN {Pt(x, y)}
             ELSE {Nil, Pt(x, y)}

\* DecompressTagged rejecting only the inputs that are too short
DecompressTaggedTooShortOnly(c, data) ==
    IF Len(data) < 1 + ByteLen(c) THEN {ErrKeySize}
    ELSE LET X  == SetBytes(SubSeq(data, 2, Len(data)))
             Y2 == (((((X * X) % c.P) * X) % c.P) + c.B) % c.P
             r  == Sqrt(c, Y2)
         IN  IF r.kind = "hang" THEN {Hang}
             ELSE IF r.v = 0 THEN {ErrNotOnCurve}
             ELSE IF (data[1] - 2) # (r.v % 2) THEN {Pt(X, c.P - r.v)}
             ELSE {Pt(X, r.v)}

\* DecompressPoint behind the switch, for a tag of 2 or 3
DecompressTagged(c, data) ==
    IF Len(data) # 1 + ByteLen(c) THEN {ErrKeySize}
    ELSE LET X  == SetBytes(SubSeq(data, 2, Len(data)))
             Y2 == (((((X * X) % c.P) * X) % c.P) + c.B) % c.P
             r  == Sqrt(c, Y2)
         IN  IF r.kind = "hang" THEN {Hang}
             ELSE IF r.v = 0 THEN {ErrNotOnCurve}
             ELSE IF (data[1] - 2) # (r.v % 2) THEN {Pt(X, c.P - r.v)}
             ELSE {Pt(X, r.v)}

\* DecompressPoint: the set of outcomes; cp[0] of an empty cp is out of range
DecompressPoint(c, data) ==
    IF data = <<>> THEN {Panic}
    ELSE IF data[1] = 3 \/ data[1] = 2 THEN DecompressTagged(c, data)
    ELSE IF data[1] = 4 THEN Unmarshal(c, data)
    ELSE {ErrInvalidHeader}

----------------------------------------------------------------------------
(* The group law of the curve, for reference: affine points and Inf *)

Inf == [kind |-> "inf", x |-> 0, y |-> 0]

RefInv(c, a) == CHOOSE x \in 1..(c.P - 1) : ((a % c.P) * x) % c.P = 1

RefAdd(c, p, q) ==
    IF p = Inf THEN q
    ELSE IF q = Inf THEN p
    ELSE IF p.x = q.x /\ (p.y + q.y) % c.P = 0 THEN Inf
    ELSE LET l == IF p = q
                  THEN (3 * p.x * p.x * RefInv(c, 2 * p.y)) % c.P
                  ELSE ((q.y - p.y) * RefInv(c, q.x - p.x)) % c.P
             x == (l * l - p.x - q.x) % c.P
         IN  Pt(x, (l * (p.x - x) - p.y) % c.P)

\* the n-fold sum of p
RECURSIVE RefMul(_, _, _)
RefMul(c, n, p) ==
    IF n = 0 THEN Inf
    ELSE LET h == RefMul(c, n \div 2, p)
             d == RefAdd(c, h, h)
         IN  IF n % 2 = 1 THEN RefAdd(c, d, p) ELSE d

\* the order of p: the least n >= 1 with n.p = Inf (at most P + 1 + 2.sqrt(P))
RefOrder(c, p) == CHOOSE n \in 1..(2 * c.P + 2) :
                    /\ RefMul(c, n, p) = Inf
                    /\ \A m \in 1..(n - 1) : RefMul(c, m, p) # Inf

IsPrime(n) == n > 1 /\ \A d \in 2..(n - 1) : n % d # 0

NoSetBit(kk) == \A i \in 1..Len(kk) : kk[i] = 0

----------------------------------------------------------------------------
(* Bounds of the inputs *)

MaxScalar    == 64    \* scalars have the values 0..MaxScalar and WideScalars,
MaxLeadZeros == 2     \* behind 0..MaxLeadZeros zero bytes
MaxHomScalar == 45    \* the scalars of a sum have the values 0..MaxHomScalar

\* values whose first byte has its high bit set, and values of two bytes
WideScalars == {128, 129, 255, 256, 257, 300}

RECURSIVE Zeros(_)
Zeros(n) == IF n = 0 THEN <<>> ELSE <<0>> \o Zeros(n - 1)

Scalars == { Zeros(n) \o Bytes(v) :
              n \in 0..MaxLeadZeros, v \in (0..MaxScalar) \cup WideScalars }

ArithCurves == RegistryCurves \cup {CompositeCurve}

PointsOn(c) == { p \in (0..(c.P - 1)) \X (0..(c.P - 1)) : IsOnCurve(c, p[1], p[2]) }

----------------------------------------------------------------------------
(* The registry is not involved in a call of a pure function. *)

RegIdle ==
    /\ initonce = Unused /\ secp = Unused /\ heap = Unused /\ pc = Unused
    /\ ipos = Unused /\ acc = Unused /\ calls = Unused
    /\ initRuns = Unused /\ initEnds = Unused /\ returned = Unused

----------------------------------------------------------------------------
(* The registry: goroutines calling the accessors S160, S192, S224, S256    *)

NumCallers == 2   \* goroutines
MaxCalls   == 2   \* accessor calls each of them makes

Callers == 1..NumCallers

Fields == <<"P", "N", "B", "Gx", "Gy", "BitSize">>
AllFields == { Fields[i] : i \in 1..Len(Fields) }

\* initAll calls initS160, initS192, initS224, initS256 in this order
InitOrder == <<S160, S192, S224, S256>>

\* each of them makes 1 + Len(Fields) steps: new(Curve), then the fields
StepsPerCurve == 1 + Len(Fields)
InitSteps == Len(InitOrder) * StepsPerCurve

CallsIdle ==
    /\ curve = Unused /\ px = Unused /\ py = Unused /\ pord = Unused
    /\ qx = Unused /\ qy = Unused /\ k = Unused /\ k2 = Unused /\ cp = Unused
    /\ sqA = Unused /\ smRes = Unused /\ smRun = Unused /\ sbmRes = Unused
    /\ sbmRun = Unused /\ sbm2Res = Unused /\ sumRes = Unused /\ addRes = Unused
    /\ dblRes = Unused /\ cpRes = Unused /\ dcRes = Unused /\ sqRes = Unused

InitReg ==
    /\ CallsIdle
    /\ initonce = [done |-> 0, m |-> 0]
    /\ secp = [a \in Accessors |-> 0]
    /\ heap = <<>>
    /\ pc = [g \in Callers |-> "idle"]
    /\ ipos = [g \in Callers |-> 0]
    /\ acc = [g \in Callers |-> S160]
    /\ calls = [g \in Callers |-> 0]
    /\ initRuns = 0 /\ initEnds = 0
    /\ returned = [a \in Accessors |-> {}]

\* a goroutine enters accessor a: initonce.Do(initAll) is next
CallAccessorWithoutOnce(g, a) ==
    /\ pc[g] = "idle" /\ calls[g] < MaxCalls
    /\ acc' = [acc EXCEPT ![g] = a]
    /\ pc' = [pc EXCEPT ![g] = "return"]
    /\ UNCHANGED <<initonce, secp, heap, ipos, calls, initRuns, initEnds,
                   returned, callVars>>

CallAccessor(g, a) ==
    /\ pc[g] = "idle" /\ calls[g] < MaxCalls
    /\ acc' = [acc EXCEPT ![g] = a]
    /\ pc' = [pc EXCEPT ![g] = "do"]
    /\ UNCHANGED <<initonce, secp, heap, ipos, calls, initRuns, initEnds,
                   returned, callVars>>

\* Once.Do: the load of done; doSlow when it is 0
OnceDo(g) ==
    /\ pc[g] = "do"
    /\ pc' = [pc EXCEPT ![g] = IF initonce.done = 0 THEN "lock" ELSE "return"]
    /\ UNCHANGED <<initonce, secp, heap, ipos, acc, calls, initRuns,
                   initEnds, returned, callVars>>

\* doSlow: o.m.Lock()
OnceLock(g) ==
    /\ pc[g] = "lock" /\ initonce.m = 0
    /\ initonce' = [initonce EXCEPT !.m = g]
    /\ pc' = [pc EXCEPT ![g] = "check"]
    /\ UNCHANGED <<secp, heap, ipos, acc, calls, initRuns, initEnds,
                   returned, callVars>>

\* doSlow: with the mutex held, f() is called if done is still 0
OnceCheck(g) ==
    /\ pc[g] = "check"
    /\ IF initonce.done = 0
       THEN /\ pc' = [pc EXCEPT ![g] = "init"]
            /\ ipos' = [ipos EXCEPT ![g] = 0]
            /\ initRuns' = initRuns + 1
       ELSE /\ pc' = [pc EXCEPT ![g] = "unlock"]
            /\ UNCHANGED <<ipos, initRuns>>
    /\ UNCHANGED <<initonce, secp, heap, acc, calls, initEnds, returned,
                   callVars>>

\* one statement of initS160 .. initS256: new(Curve) or the next field
InitStep(g) ==
    /\ pc[g] = "init" /\ ipos[g] < InitSteps
    /\ LET a == InitOrder[1 + ipos[g] \div StepsPerCurve]
           f == ipos[g] % StepsPerCurve
       IN  IF f = 0
           THEN /\ heap' = Append(heap, {})
                /\ secp' = [secp EXCEPT ![a] = Len(heap) + 1]
           ELSE /\ heap' = [heap EXCEPT ![secp[a]] = @ \cup {Fields[f]}]
                /\ UNCHANGED secp
    /\ ipos' = [ipos EXCEPT ![g] = @ + 1]
    /\ UNCHANGED <<initonce, pc, acc, calls, initRuns, initEnds, returned,
                   callVars>>

\* initAll returns; the deferred done.Store(1) runs
OnceStore(g) ==
    /\ pc[g] = "init" /\ ipos[g] = InitSteps
    /\ initonce' = [initonce EXCEPT !.done = 1]
    /\ initEnds' = initEnds + 1
    /\ pc' = [pc EXCEPT ![g] = "unlock"]
    /\ UNCHANGED <<secp, heap, ipos, acc, calls, initRuns, returned,
                   callVars>>

\* the deferred o.m.Unlock()
OnceUnlock(g) ==
    /\ pc[g] = "unlock"
    /\ initonce' = [initonce EXCEPT !.m = 0]
    /\ pc' = [pc EXCEPT ![g] = "return"]
    /\ UNCHANGED <<secp, heap, ipos, acc, calls, initRuns, initEnds,
                   returned, callVars>>

\* return secp160k1 (secp192k1, ...)
ReturnCurve(g) ==
    /\ pc[g] = "return"
    /\ returned' = [returned EXCEPT ![acc[g]] = @ \cup {secp[acc[g]]}]
    /\ calls' = [calls EXCEPT ![g] = @ + 1]
    /\ acc' = [acc EXCEPT ![g] = S160]
    /\ pc' = [pc EXCEPT ![g] = "idle"]
    /\ UNCHANGED <<initonce, secp, heap, ipos, initRuns, initEnds, callVars>>

NextReg ==
    \E g \in Callers :
        \/ \E a \in Accessors : CallAccessor(g, a)
        \/ OnceDo(g)
        \/ OnceLock(g)
        \/ OnceCheck(g)
        \/ InitStep(g)
        \/ OnceStore(g)
        \/ OnceUnlock(g)
        \/ ReturnCurve(g)

SpecReg == InitReg /\ [][NextReg]_vars

\* C1: however the first calls of the accessors interleave, initAll runs
\* once, an accessor returns only after initAll has returned, what it
\* returns is a non-nil Curve with P, N, B, Gx, Gy and BitSize all set, and
\* an accessor returns the same instance every time.
C1_InitOnceAndComplete ==
    /\ initRuns <= 1
    /\ \A a \in Accessors : \A r \in returned[a] :
          /\ initRuns = 1 /\ initEnds = 1
          /\ r # 0
          /\ heap[r] = AllFields
    /\ \A a \in Accessors : Cardinality(returned[a]) <= 1

\* C1 witness: a goroutine that found done = 0 and then waited for the mutex
\* holds it with initAll over, and the goroutine that ran initAll has its
\* curve
C1_Witness ==
    /\ initRuns = 1 /\ initEnds = 1
    /\ \E g \in Callers : pc[g] = "unlock" /\ ipos[g] = 0
    /\ \E g \in Callers : calls[g] > 0 /\ ipos[g] = InitSteps
    /\ \E a \in Accessors : \E r \in returned[a] : heap[r] = AllFields

----------------------------------------------------------------------------
(* Scalar multiplication: one call of ScalarMult and of ScalarBaseMult on   *)
(* a curve, a base point on it and a scalar.                                *)

InitMult ==
    /\ RegIdle
    /\ curve \in ArithCurves
    /\ \E p \in PointsOn(curve) :
          px = p[1] /\ py = p[2] /\ pord = RefOrder(curve, Pt(p[1], p[2]))
    /\ k \in Scalars
    /\ smRes = NotCalled /\ smRun = Unused
    /\ sbmRes = NotCalled /\ sbmRun = Unused
    /\ qx = Unused /\ qy = Unused /\ k2 = Unused /\ cp = Unused /\ sqA = Unused
    /\ sbm2Res = Unused /\ sumRes = Unused /\ addRes = Unused /\ dblRes = Unused
    /\ cpRes = Unused /\ dcRes = Unused /\ sqRes = Unused

CallScalarMult ==
    /\ smRes = NotCalled
    /\ smRun' = ScalarMultRun(curve, px, py, k)
    /\ smRes' \in ScalarMultReturn(curve, smRun')
    /\ UNCHANGED <<regVars, inVars, sbmRes, sbmRun, sbm2Res, sumRes, addRes,
                   dblRes, cpRes, dcRes, sqRes>>

CallScalarBaseMult ==
    /\ sbmRes = NotCalled
    /\ sbmRun' = ScalarMultRun(curve, curve.Gx, curve.Gy, k)
    /\ sbmRes' \in ScalarMultReturn(curve, sbmRun')
    /\ UNCHANGED <<regVars, inVars, smRes, smRun, sbm2Res, sumRes, addRes,
                   dblRes, cpRes, dcRes, sqRes>>

NextMult == CallScalarMult \/ CallScalarBaseMult

SpecMult == InitMult /\ [][NextMult]_vars

----------------------------------------------------------------------------
(* Sums: k.G, k2.G and ((k + k2) mod N).G are computed, then the first two  *)
(* are added.                                                               *)

InitHom ==
    /\ RegIdle
    /\ curve \in ArithCurves
    /\ k \in { Bytes(v) : v \in 0..MaxHomScalar }
    /\ k2 \in { Bytes(v) : v \in 0..MaxHomScalar }
    /\ sbmRes = NotCalled /\ sbm2Res = NotCalled
    /\ sumRes = NotCalled /\ addRes = NotCalled
    /\ px = Unused /\ py = Unused /\ pord = Unused /\ qx = Unused /\ qy = Unused
    /\ cp = Unused /\ sqA = Unused /\ smRes = Unused /\ smRun = Unused
    /\ sbmRun = Unused /\ dblRes = Unused /\ cpRes = Unused /\ dcRes = Unused
    /\ sqRes = Unused

HomMultK ==
    /\ sbmRes = NotCalled
    /\ sbmRes' \in ScalarBaseMult(curve, k)
    /\ UNCHANGED <<regVars, inVars, smRes, smRun, sbmRun, sbm2Res, sumRes,
                   addRes, dblRes, cpRes, dcRes, sqRes>>

HomMultK2 ==
    /\ sbmRes \notin {NotCalled, Panic} /\ sbm2Res = NotCalled
    /\ sbm2Res' \in ScalarBaseMult(curve, k2)
    /\ UNCHANGED <<regVars, inVars, smRes, smRun, sbmRes, sbmRun, sumRes,
                   addRes, dblRes, cpRes, dcRes, sqRes>>

HomMultSum ==
    /\ sbm2Res \notin {NotCalled, Panic} /\ sumRes = NotCalled
    /\ sumRes' \in ScalarBaseMult(curve,
                       Bytes((SetBytes(k) + SetBytes(k2)) % curve.N))
    /\ UNCHANGED <<regVars, inVars, smRes, smRun, sbmRes, sbmRun, sbm2Res,
                   addRes, dblRes, cpRes, dcRes, sqRes>>

\* Add of the two products; a nil coordinate is dereferenced by addJacobian
HomAdd ==
    /\ sumRes \notin {NotCalled, Panic} /\ addRes = NotCalled
    /\ addRes' \in IF sbmRes = Nil \/ sbm2Res = Nil
                    THEN {Panic}
                    ELSE Add(curve, sbmRes.x, sbmRes.y, sbm2Res.x, sbm2Res.y)
    /\ UNCHANGED <<regVars, inVars, smRes, smRun, sbmRes, sbmRun, sbm2Res,
                   sumRes, dblRes, cpRes, dcRes, sqRes>>

NextHom == HomMultK \/ HomMultK2 \/ HomMultSum \/ HomAdd

SpecHom == InitHom /\ [][NextHom]_vars

----------------------------------------------------------------------------
(* Points: Add and Double on points of a curve *)

InitPoint ==
    /\ RegIdle
    /\ curve \in ArithCurves
    /\ \E p \in PointsOn(curve) :
          px = p[1] /\ py = p[2] /\ pord = RefOrder(curve, Pt(p[1], p[2]))
    /\ \E q \in PointsOn(curve) : qx = q[1] /\ qy = q[2]
    /\ addRes = NotCalled /\ dblRes = NotCalled
    /\ k = Unused /\ k2 = Unused /\ cp = Unused /\ sqA = Unused
    /\ smRes = Unused /\ smRun = Unused /\ sbmRes = Unused /\ sbmRun = Unused
    /\ sbm2Res = Unused /\ sumRes = Unused /\ cpRes = Unused /\ dcRes = Unused
    /\ sqRes = Unused

CallAdd ==
    /\ addRes = NotCalled
    /\ addRes' \in Add(curve, px, py, qx, qy)
    /\ UNCHANGED <<regVars, inVars, smRes, smRun, sbmRes, sbmRun, sbm2Res,
                   sumRes, dblRes, cpRes, dcRes, sqRes>>

CallDouble ==
    /\ dblRes = NotCalled
    /\ dblRes' \in Double(curve, px, py)
    /\ UNCHANGED <<regVars, inVars, smRes, smRun, sbmRes, sbmRun, sbm2Res,
                   sumRes, addRes, cpRes, dcRes, sqRes>>

NextPoint == CallAdd \/ CallDouble

SpecPoint == InitPoint /\ [][NextPoint]_vars

----------------------------------------------------------------------------
(* Claims on scalar multiplication *)

\* C2: ScalarMult(Bx, By, k) is the k-fold sum of (Bx, By) under the group
\* law, for every on-curve base point and every byte sequence k whose multiple
\* is not the identity, whatever the length of k and whether or not its value
\* is below the order.
C2_ScalarMultIsMultiple ==
    (smRes # NotCalled /\ RefMul(curve, SetBytes(k), Pt(px, py)) # Inf)
        => smRes = RefMul(curve, SetBytes(k), Pt(px, py))

\* C3: ScalarMult and ScalarBaseMult return (nil, nil), having doubled and
\* added nothing, exactly for the scalars with no set bit: the empty sequence
\* and the sequences of zero bytes.
C3_AbsentIffNoSetBit ==
    /\ smRes # NotCalled =>
          /\ (smRes = Nil) <=> NoSetBit(k)
          /\ NoSetBit(k) => (smRun.nDbl = 0 /\ smRun.nAdd = 0)
    /\ sbmRes # NotCalled =>
          /\ (sbmRes = Nil) <=> NoSetBit(k)
          /\ NoSetBit(k) => (sbmRun.nDbl = 0 /\ sbmRun.nAdd = 0)

\* C3 witness: both calls made on a sequence of two zero bytes
C3_Witness ==
    /\ k = <<0, 0>> /\ smRes = Nil /\ sbmRes = Nil
    /\ smRun.nDbl = 0 /\ sbmRun.nAdd = 0

\* C10: for a base point of prime order N and a scalar of value 1..N-1, no
\* addJacobian of ScalarMult is entered with h = 0, no doubling or addition
\* yields z = 0, and the final affineFromJacobian has an invertible z.
C10_NoUndefinedOnValidRange ==
    (/\ smRes # NotCalled
     /\ IsPrime(pord)
     /\ SetBytes(k) \in 1..(pord - 1))
        => /\ ~smRun.hZero
           /\ ~smRun.zZero
           /\ smRun.z % curve.P # 0
           /\ smRes \notin {Panic, Nil}

\* C10 witness: a scalar in range that makes ScalarMult double and add
C10_Witness ==
    /\ smRes # NotCalled
    /\ IsPrime(pord)
    /\ SetBytes(k) \in 1..(pord - 1)
    /\ smRun.nDbl >= 4 /\ smRun.nAdd >= 3
    /\ Len(k) = 1 + MaxLeadZeros

----------------------------------------------------------------------------
(* Claims on Add and Double *)

\* C4: for scalars k, k2 with none of k, k2 and k + k2 a multiple of N,
\* ScalarMult(G, (k + k2) mod N) equals Add(ScalarMult(G, k), ScalarMult(G, k2)),
\* the case k = k2 included.
C4_Homomorphism ==
    (/\ addRes # NotCalled
     /\ SetBytes(k) % curve.N # 0
     /\ SetBytes(k2) % curve.N # 0
     /\ (SetBytes(k) + SetBytes(k2)) % curve.N # 0)
        => addRes = sumRes

\* C5: for every point (x, y) on the curve with y # 0, Add(x, y, x, y) and
\* Double(x, y) yield the same affine result.
C5_AddSelfIsDouble ==
    (/\ addRes # NotCalled /\ dblRes # NotCalled
     /\ qx = px /\ qy = py /\ py # 0)
        => addRes = dblRes

----------------------------------------------------------------------------
(* Square roots: one call of Sqrt on a curve over the field of P elements   *)

MaxSqrtP == 312   \* the moduli are the odd primes up to MaxSqrtP

\* a curve over the field of p elements: y^2 = x^3 + 1, with (0, 1) on it
CurveOver(p) == [P |-> p, N |-> p + 1, B |-> 1, Gx |-> 0, Gy |-> 1,
                 BitSize |-> BitLen(p)]

InitSqrt ==
    /\ RegIdle
    /\ \E p \in 3..MaxSqrtP : IsPrime(p) /\ curve = CurveOver(p)
    /\ sqA \in 0..(curve.P - 1)
    /\ sqRes = NotCalled
    /\ px = Unused /\ py = Unused /\ pord = Unused /\ qx = Unused /\ qy = Unused
    /\ k = Unused /\ k2 = Unused /\ cp = Unused
    /\ smRes = Unused /\ smRun = Unused /\ sbmRes = Unused /\ sbmRun = Unused
    /\ sbm2Res = Unused /\ sumRes = Unused /\ addRes = Unused /\ dblRes = Unused
    /\ cpRes = Unused /\ dcRes = Unused

CallSqrt ==
    /\ sqRes = NotCalled
    /\ sqRes' = Sqrt(curve, sqA)
    /\ UNCHANGED <<regVars, inVars, smRes, smRun, sbmRes, sbmRun, sbm2Res,
                   sumRes, addRes, dblRes, cpRes, dcRes>>

NextSqrt == CallSqrt

SpecSqrt == InitSqrt /\ [][NextSqrt]_vars

----------------------------------------------------------------------------
(* Round trip: a point of a curve is compressed, the result decompressed    *)

RoundTripCurves == ArithCurves \cup {WideCurve1, WideCurve3}

InitRoundTrip ==
    /\ RegIdle
    /\ curve \in RoundTripCurves
    /\ \E p \in PointsOn(curve) : px = p[1] /\ py = p[2]
    /\ cpRes = NoBytes /\ dcRes = NotCalled
    /\ pord = Unused /\ qx = Unused /\ qy = Unused
    /\ k = Unused /\ k2 = Unused /\ cp = Unused /\ sqA = Unused
    /\ smRes = Unused /\ smRun = Unused /\ sbmRes = Unused /\ sbmRun = Unused
    /\ sbm2Res = Unused /\ sumRes = Unused /\ addRes = Unused /\ dblRes = Unused
    /\ sqRes = Unused

CallCompressPoint ==
    /\ cpRes = NoBytes
    /\ cpRes' = CompressPoint(curve, px, py)
    /\ UNCHANGED <<regVars, inVars, smRes, smRun, sbmRes, sbmRun, sbm2Res,
                   sumRes, addRes, dblRes, dcRes, sqRes>>

CallDecompressCompressed ==
    /\ cpRes # NoBytes /\ dcRes = NotCalled
    /\ dcRes' \in DecompressPoint(curve, cpRes)
    /\ UNCHANGED <<regVars, inVars, smRes, smRun, sbmRes, sbmRun, sbm2Res,
                   sumRes, addRes, dblRes, cpRes, sqRes>>

NextRoundTrip == CallCompressPoint \/ CallDecompressCompressed

SpecRoundTrip == InitRoundTrip /\ [][NextRoundTrip]_vars

----------------------------------------------------------------------------
(* Decompression: one call of DecompressPoint on a byte sequence            *)

MaxTag          == 5     \* the first byte is 0..MaxTag
MaxCpLen        == 4     \* at most MaxCpLen bytes in all
MaxPayloadValue == 520   \* the bytes behind it have the values 0..MaxPayloadValue

DecompressCurves == {Params(S192), WideCurve1, WideCurve3}

CpInputs ==
    { <<t>> \o Zeros(n) \o Bytes(v) :
        t \in 0..MaxTag, n \in 0..(MaxCpLen - 1), v \in 0..MaxPayloadValue }

InitDecompress ==
    /\ RegIdle
    /\ curve \in DecompressCurves
    /\ cp \in { d \in CpInputs : Len(d) <= MaxCpLen } \cup {<<>>}
    /\ dcRes = NotCalled
    /\ px = Unused /\ py = Unused /\ pord = Unused /\ qx = Unused /\ qy = Unused
    /\ k = Unused /\ k2 = Unused /\ sqA = Unused
    /\ smRes = Unused /\ smRun = Unused /\ sbmRes = Unused /\ sbmRun = Unused
    /\ sbm2Res = Unused /\ sumRes = Unused /\ addRes = Unused /\ dblRes = Unused
    /\ cpRes = Unused /\ sqRes = Unused

CallDecompressPoint ==
    /\ dcRes = NotCalled
    /\ dcRes' \in DecompressPoint(curve, cp)
    /\ UNCHANGED <<regVars, inVars, smRes, smRun, sbmRes, sbmRun, sbm2Res,
                   sumRes, addRes, dblRes, cpRes, sqRes>>

NextDecompress == CallDecompressPoint

SpecDecompress == InitDecompress /\ [][NextDecompress]_vars

----------------------------------------------------------------------------
(* Claims on compression and square roots *)

\* C6: for every point (x, y) on the curve with 0 <= x, y < P,
\* DecompressPoint(CompressPoint(x, y)) returns no error and exactly (x, y),
\* also when x has leading zero bytes at the width ceil(BitSize/8) and when
\* y = 0.
C6_RoundTrip ==
    dcRes # NotCalled => dcRes = Pt(px, py)

\* C7: DecompressPoint fails with the invalid-length error on every
\* non-empty input whose first byte is 2 or 3 and whose length is not
\* 1 + ceil(BitSize/8), and with the invalid-encoding error on every
\* non-empty input whose first byte is none of 2, 3, 4, whatever its length.
C7_DecompressErrors ==
    (dcRes # NotCalled /\ cp # <<>>) =>
        /\ (cp[1] \in {2, 3} /\ Len(cp) # 1 + (curve.BitSize + 7) \div 8)
              => dcRes = ErrKeySize
        /\ cp[1] \notin {2, 3, 4} => dcRes = ErrInvalidHeader

\* C7 witness: a tag of 2 before one byte too many
C7_Witness ==
    /\ dcRes = ErrKeySize /\ cp # <<>> /\ cp[1] = 2
    /\ Len(cp) = 2 + (curve.BitSize + 7) \div 8

\* a is a non-zero square modulo p
IsResidue(a, p) == \E r \in 1..(p - 1) : (r * r) % p = a

\* C8: for an odd prime P and a in [0, P), Sqrt returns r with r.r = a
\* (mod P) and 0 < r < P when a is a non-zero quadratic residue, and 0 when a
\* is 0 or a non-residue; on the fast path and on the general path.
C8_SqrtCorrect ==
    sqRes # NotCalled =>
        IF IsResidue(sqA, curve.P)
        THEN /\ sqRes.kind = "value"
             /\ sqRes.v \in 1..(curve.P - 1)
             /\ (sqRes.v * sqRes.v) % curve.P = sqA
        ELSE sqRes.kind = "value" /\ sqRes.v = 0

\* C8 witness: a root found by the general path in more than one pass
C8_Witness ==
    /\ sqRes # NotCalled /\ sqRes.path = "general" /\ Len(sqRes.rs) >= 3
    /\ (sqRes.v * sqRes.v) % curve.P = sqA

\* C9: on the general path (P = 1 mod 4, a a non-zero residue) every pass
\* that does not return finds m with 0 < m < r, so r strictly decreases from
\* e, where P - 1 = s.2^e with s odd, and the loop returns within e passes.
C9_SqrtLoopTerminates ==
    (sqRes # NotCalled /\ curve.P % 4 = 1 /\ IsResidue(sqA, curve.P)) =>
        /\ sqRes.kind = "value" /\ sqRes.path = "general"
        /\ \A i \in 1..Len(sqRes.rs) : sqRes.ms[i] < sqRes.rs[i]
        /\ \A i \in 1..(Len(sqRes.rs) - 1) :
              sqRes.ms[i] > 0 /\ sqRes.rs[i + 1] < sqRes.rs[i]
        /\ \E s \in 1..curve.P :
              s % 2 = 1 /\ s * Pow2(sqRes.rs[1]) = curve.P - 1
        /\ Len(sqRes.rs) <= sqRes.rs[1]

\* C9 witness: a call that took four passes
C9_Witness ==
    /\ sqRes # NotCalled /\ sqRes.kind = "value" /\ sqRes.path = "general"
    /\ Len(sqRes.rs) >= 4

====
